---- MODULE Spec2Model ----
(***************************************************************************)
(* A model of package idgenerator (Snowflake ID generator).                *)
(*                                                                         *)
(* NewSnowflakeID is modelled twice from the same step operators: as a     *)
(* sequence of actions over one call-local state object (Spec), and as the *)
(* operator NewSnowflakeID applied to whole calls (SpecPair, two calls).   *)
(*                                                                         *)
(* int64 values are 64-bit two's complement words, written as the set of   *)
(* the positions of their 1 bits, because the values involved (Unix        *)
(* milliseconds, 2^41, the 63-bit IDs) exceed the model checker's integers.*)
(* Go's int values (datacenter ID, machine ID, sequence number, arguments  *)
(* of rand.Intn) stay small and are plain integers.                        *)
(* A time.Time is the pair of its Unix millisecond (int64, floored) and    *)
(* the nanoseconds into that millisecond.                                  *)
(***************************************************************************)
EXTENDS Integers, Sequences, FiniteSets, TLC

(***************************************************************************)
(* 64-bit two's complement arithmetic                                      *)
(***************************************************************************)

\* int64: the width of snowflake.timestamp and of the returned ID
Width == 64

Bits == 0 .. (Width - 1)

SignBit == Width - 1

RECURSIVE Pow2(_)
Pow2(n) == IF n = 0 THEN 1 ELSE 2 * Pow2(n - 1)

\* 2^0 .. 2^30, tabulated
Pow2Table == [i \in 0 .. 30 |-> Pow2(i)]

\* the word of a natural number below 2^31
NatBits(n) == {i \in 0 .. 30 : (n \div Pow2Table[i]) % 2 = 1}

RECURSIVE AddBits(_, _, _, _)
AddBits(a, b, i, carry) ==
    IF i > SignBit THEN {}
    ELSE LET sum == (IF i \in a THEN 1 ELSE 0) + (IF i \in b THEN 1 ELSE 0) + carry
         IN  (IF sum % 2 = 1 THEN {i} ELSE {}) \cup AddBits(a, b, i + 1, sum \div 2)

\* a + b, wrapping modulo 2^64
Add64(a, b) == AddBits(a, b, 0, 0)

Zero64 == {}

One64 == {0}

\* -a
Neg64(a) == Add64(Bits \ a, One64)

\* a - b, wrapping modulo 2^64
Sub64(a, b) == Add64(a, Neg64(b))

\* the word of an integer of magnitude below 2^31
FromInt(n) == IF n >= 0 THEN NatBits(n) ELSE Neg64(NatBits(-n))

\* hi * 2^30 + lo, for writing down constants beyond 2^31
Big(hi, lo) == Add64({i + 30 : i \in NatBits(hi)}, NatBits(lo))

IsNeg64(a) == SignBit \in a

MaxOf(S) == CHOOSE x \in S : \A y \in S : y <= x

\* a < b as signed int64
Less64(a, b) ==
    IF IsNeg64(a) # IsNeg64(b) THEN IsNeg64(a)
    ELSE LET diff == (a \ b) \cup (b \ a)
         IN  diff # {} /\ MaxOf(diff) \in b

Leq64(a, b) == a = b \/ Less64(a, b)

\* a << k on int64: bits shifted past the top are lost
Shl64(a, k) == {i + k : i \in {j \in a : j + k <= SignBit}}

\* a >> k on int64 (arithmetic)
Shr64(a, k) ==
    {i - k : i \in {j \in a : j >= k}}
        \cup (IF IsNeg64(a) THEN (Width - k) .. SignBit ELSE {})

\* a | b
Or64(a, b) == a \cup b

\* a & b
And64(a, b) == a \cap b

RECURSIVE BitsToNat(_)
BitsToNat(S) ==
    IF S = {} THEN 0
    ELSE LET e == MaxOf(S) IN Pow2(e) + BitsToNat(S \ {e})

\* a ^ b (bitwise exclusive or) on small non-negative Go ints
XorInt(a, b) ==
    LET x == NatBits(a)
        y == NatBits(b)
    IN  BitsToNat((x \ y) \cup (y \ x))

(***************************************************************************)
(* time.Time, as far as the package uses it                                *)
(***************************************************************************)

\* the instant ms milliseconds and ns further nanoseconds after 1970-01-01T00:00:00Z
MkTime(ms, ns) == [ms |-> ms, ns |-> ns]

\* time.Time{}: 0001-01-01T00:00:00Z, Unix millisecond -62135596800000
ZeroTime == MkTime(Neg64(Big(57868, 304928768)), 0)

\* t.IsZero()
IsZero(t) == t = ZeroTime

\* t.UnixMilli(): the nanoseconds below the millisecond are dropped (floor)
UnixMilli(t) == t.ms

\* time.UnixMilli(m)
TimeUnixMilli(m) == MkTime(m, 0)

\* t.Sub(u).Milliseconds(): the difference in nanoseconds, truncated toward
\* zero to whole milliseconds. (Duration saturates near 292 years; every
\* difference the model draws stays below that.)
SubMilliseconds(t, u) ==
    LET dms == Sub64(t.ms, u.ms)
        dns == t.ns - u.ns
    IN  IF Less64(Zero64, dms) /\ dns < 0 THEN Sub64(dms, One64)
        ELSE IF IsNeg64(dms) /\ dns > 0 THEN Add64(dms, One64)
        ELSE dms

(***************************************************************************)
(* Package constants and variables                                         *)
(***************************************************************************)

timestampBitRange == 41

datacenterBitRange == 5

machineBitRange == 5

sequenceNumBitRange == 12

\* a slip: the timestamp shifted onto the datacenter ID's bits
timestampBitShiftOntoDatacenter == machineBitRange + sequenceNumBitRange

timestampBitShift == datacenterBitRange + machineBitRange + sequenceNumBitRange

\* a slip: the datacenter ID shifted past the machine ID only
datacenterBitShiftWithoutSequence == machineBitRange

datacenterBitShift == machineBitRange + sequenceNumBitRange

machineBitShift == sequenceNumBitRange

\* time.Date(2024, 1, 1, 0, 0, 0, 0, time.UTC): Unix millisecond 1704067200000
defaultBaseTime == MkTime(Big(1587, 38925312), 0)

ErrOverLifeTime == "over the maximum lifetime"

ErrInvalidTimestamp == "invalid timestamp"

ErrInvalidDatacenterID == "invalid datacenter ID"

ErrInvalidMachineID == "invalid machine ID"

ErrInvalidSequenceNumber == "invalid sequence number"

Nil == "nil"

\* &snowflake{}: every field at its zero value, the mutex unlocked
NewSnowflake ==
    [timestamp |-> Zero64, datacenterID |-> 0, machineID |-> 0,
     sequenceNumber |-> 0, baseTime |-> ZeroTime, random |-> FALSE,
     mutex |-> FALSE]

(***************************************************************************)
(* Options: WithX(v) returns a closure over the state object; here the     *)
(* closure's argument s is the second parameter and its result is the      *)
(* state object it leaves together with the error it returns.              *)
(***************************************************************************)

\* a slip: the bound one too high
MaxValueOffByOne(bits) == Pow2(bits)

\* int(math.Pow(2, bits)) - 1
MaxValue(bits) == Pow2(bits) - 1

WithTimestamp(v, s) ==
    [s |-> [s EXCEPT !.timestamp = UnixMilli(v)], err |-> Nil]

WithDatacenterID(v, s) ==
    IF v < 0 \/ v > MaxValue(datacenterBitRange)
    THEN [s |-> s, err |-> ErrInvalidDatacenterID]
    ELSE [s |-> [s EXCEPT !.datacenterID = v], err |-> Nil]

WithMachineID(v, s) ==
    IF v < 0 \/ v > MaxValue(machineBitRange)
    THEN [s |-> s, err |-> ErrInvalidMachineID]
    ELSE [s |-> [s EXCEPT !.machineID = v], err |-> Nil]

WithSequenceNumber(v, s) ==
    IF v < 0 \/ v > MaxValue(sequenceNumBitRange)
    THEN [s |-> s, err |-> ErrInvalidSequenceNumber]
    ELSE [s |-> [s EXCEPT !.sequenceNumber = v], err |-> Nil]

WithBaseTime(v, s) ==
    [s |-> [s EXCEPT !.baseTime = v], err |-> Nil]

WithRandomEnabled(s) ==
    [s |-> [s EXCEPT !.random = TRUE], err |-> Nil]

\* an option value: which constructor made it, and its argument (a time.Time
\* or an int)
TimeOpt(kind, v) == [kind |-> kind, t |-> v, n |-> 0]

IntOpt(kind, v) == [kind |-> kind, t |-> ZeroTime, n |-> v]

\* f(s) for an option f of the list
ApplyOption(o, s) ==
    CASE o.kind = "WithTimestamp" -> WithTimestamp(o.t, s)
      [] o.kind = "WithDatacenterID" -> WithDatacenterID(o.n, s)
      [] o.kind = "WithMachineID" -> WithMachineID(o.n, s)
      [] o.kind = "WithSequenceNumber" -> WithSequenceNumber(o.n, s)
      [] o.kind = "WithBaseTime" -> WithBaseTime(o.t, s)
      [] o.kind = "WithRandomEnabled" -> WithRandomEnabled(s)

(***************************************************************************)
(* The clock resolver, the randomizer and the bit packer                   *)
(***************************************************************************)

\* int64(math.Pow(2, timestampBitRange)) - 1
MaxElapsed == Sub64({timestampBitRange}, One64)

\* s.getElapsedTimestamp(), with nowv the value time.Now().UTC() returns
getElapsedTimestamp(s, nowv) ==
    LET at == IF Less64(Zero64, s.timestamp) THEN TimeUnixMilli(s.timestamp)
              ELSE nowv
        baseTime == IF ~IsZero(s.baseTime) THEN s.baseTime ELSE defaultBaseTime
        diffMilli == SubMilliseconds(at, baseTime)
    IN  IF Leq64(diffMilli, Zero64) THEN [ts |-> Zero64, err |-> ErrInvalidTimestamp]
        ELSE IF Less64(MaxElapsed, diffMilli) THEN [ts |-> Zero64, err |-> ErrOverLifeTime]
        ELSE [ts |-> diffMilli, err |-> Nil]

\* the argument of rand.Intn: Go reads 2 ^ bits - 1 as (2 XOR bits) - 1
RandBound(bits) == XorInt(2, bits) - 1

\* rand.Intn(n): any value of [0, n)
Intn(n) == 0 .. (n - 1)

\* the state objects the randomizer can leave: each field still 0 gets a draw
RandomOutcomes(s) ==
    IF ~s.random THEN {s}
    ELSE {[s EXCEPT !.datacenterID = dc, !.machineID = m, !.sequenceNumber = q] :
            dc \in (IF s.datacenterID = 0 THEN Intn(RandBound(datacenterBitRange))
                    ELSE {s.datacenterID}),
            m \in (IF s.machineID = 0 THEN Intn(RandBound(machineBitRange))
                   ELSE {s.machineID}),
            q \in (IF s.sequenceNumber = 0 THEN Intn(RandBound(sequenceNumBitRange))
                   ELSE {s.sequenceNumber})}

\* generatedID: the four fields shifted into place and OR-ed
Pack(s) ==
    Or64(Or64(Or64(Shl64(s.timestamp, timestampBitShift),
                   Shl64(FromInt(s.datacenterID), datacenterBitShift)),
              Shl64(FromInt(s.machineID), machineBitShift)),
         FromInt(s.sequenceNumber))

\* s.mutex.Lock() / s.mutex.Unlock()
Lock(s) == [s EXCEPT !.mutex = TRUE]

Unlock(s) == [s EXCEPT !.mutex = FALSE]

(***************************************************************************)
(* The arguments the model draws                                           *)
(***************************************************************************)

\* how many wall-clock readings time.Now() can return
ClockSamples == 2

\* the nanoseconds of an instant that does not fall on a whole millisecond
SubMilliNs == 500000

EpochMs == defaultBaseTime.ms

\* half a millisecond after 1970-01-01T00:00:00Z
JustAfter1970 == MkTime(Zero64, SubMilliNs)

\* 1.5 ms after the default epoch
SoonAfterEpoch == MkTime(Add64(EpochMs, One64), SubMilliNs)

\* 2^41-1 ms and 2^41 ms after the default epoch
LastInLifetime == MkTime(Add64(EpochMs, MaxElapsed), 0)

FirstOverLifetime == MkTime(Add64(Add64(EpochMs, MaxElapsed), One64), 0)

\* 1 ms before 1970-01-01T00:00:00Z
JustBefore1970 == MkTime(Neg64(One64), 0)

\* 1.5 ms after the default epoch, as an epoch of its own
LaterEpoch == MkTime(Add64(EpochMs, One64), SubMilliNs)

\* arguments of WithTimestamp and WithBaseTime in SpecClock and SpecPair
TimestampValues ==
    {JustAfter1970, defaultBaseTime, SoonAfterEpoch, LastInLifetime,
     FirstOverLifetime}

BaseValues == {ZeroTime, JustBefore1970, LaterEpoch}

\* arguments of WithTimestamp and WithBaseTime in Spec
FewTimestampValues == {defaultBaseTime, SoonAfterEpoch, FirstOverLifetime}

FewBaseValues == {LaterEpoch}

\* the wall clock: 2.5 ms, 3.5 ms, ... after the default epoch
NowValues ==
    {MkTime(Add64(EpochMs, FromInt(1 + k)), SubMilliNs) : k \in 1 .. ClockSamples}

DatacenterValues == {-1, 0, 31, 32}

MachineValues == {-1, 0, 31, 32}

SequenceValues == {-1, 0, 4095, 4096}

FieldOptions ==
    {IntOpt("WithDatacenterID", v) : v \in DatacenterValues}
        \cup {IntOpt("WithMachineID", v) : v \in MachineValues}
        \cup {IntOpt("WithSequenceNumber", v) : v \in SequenceValues}

\* Spec: every kind of option, few instants
Options ==
    FieldOptions
        \cup {TimeOpt("WithTimestamp", t) : t \in FewTimestampValues}
        \cup {TimeOpt("WithBaseTime", t) : t \in FewBaseValues}
        \cup {IntOpt("WithRandomEnabled", 0)}

\* SpecClock: every instant, no randomization
ClockOptions ==
    FieldOptions
        \cup {TimeOpt("WithTimestamp", t) : t \in TimestampValues}
        \cup {TimeOpt("WithBaseTime", t) : t \in BaseValues}

NoOpt == IntOpt("none", 0)

\* what the caller has passed: per option kind the last argument, <<>> if none
NoneGiven ==
    [ts |-> <<>>, base |-> <<>>, dc |-> <<>>, m |-> <<>>, seq |-> <<>>,
     random |-> FALSE]

GivenAfter(g, o) ==
    CASE o.kind = "WithTimestamp" -> [g EXCEPT !.ts = <<o.t>>]
      [] o.kind = "WithBaseTime" -> [g EXCEPT !.base = <<o.t>>]
      [] o.kind = "WithDatacenterID" -> [g EXCEPT !.dc = <<o.n>>]
      [] o.kind = "WithMachineID" -> [g EXCEPT !.m = <<o.n>>]
      [] o.kind = "WithSequenceNumber" -> [g EXCEPT !.seq = <<o.n>>]
      [] o.kind = "WithRandomEnabled" -> [g EXCEPT !.random = TRUE]

(***************************************************************************)
(* One call of NewSnowflakeID, step by step                                *)
(***************************************************************************)

VARIABLES
    pc,       \* where the call stands: "idle", "opts", "random", "done"
    s,        \* the call's state object
    id,       \* the returned ID
    err,      \* the returned error
    given,    \* the arguments of the options handed to the loop so far
    lastOpt,  \* the option the loop handled last, NoOpt once the loop is left
    sampled,  \* <<the value time.Now() returned>>, <<>> before it is called
    phases,   \* which of "clock" and "random" have run in this call
    first,    \* SpecPair: the first whole call, NoCall before it returned
    second    \* SpecPair: the second whole call

vars == <<pc, s, id, err, given, lastOpt, sampled, phases, first, second>>

NoCall == [done |-> FALSE]

Init ==
    /\ pc = "idle"
    /\ s = NewSnowflake
    /\ id = Zero64
    /\ err = Nil
    /\ given = NoneGiven
    /\ lastOpt = NoOpt
    /\ sampled = <<>>
    /\ phases = {}
    /\ first = NoCall
    /\ second = NoCall

\* s := &snowflake{}; s.mutex.Lock()
Call ==
    /\ pc \in {"idle", "done"}
    /\ pc' = "opts"
    /\ s' = Lock(NewSnowflake)
    /\ id' = Zero64
    /\ err' = Nil
    /\ given' = NoneGiven
    /\ lastOpt' = NoOpt
    /\ sampled' = <<>>
    /\ phases' = {}
    /\ UNCHANGED <<first, second>>

\* a slip: a rejected option is skipped and the loop goes on
OptionSkippingRejected(o) ==
    /\ pc = "opts"
    /\ s' = ApplyOption(o, s).s
    /\ err' = Nil
    /\ pc' = "opts"
    /\ id' = Zero64
    /\ given' = GivenAfter(given, o)
    /\ lastOpt' = o
    /\ UNCHANGED <<sampled, phases, first, second>>

\* one iteration of the loop over opts, with o the option at hand
Option(o) ==
    /\ pc = "opts"
    /\ LET r == ApplyOption(o, s)
       IN  /\ s' = r.s
           /\ err' = r.err
           /\ pc' = IF r.err # Nil THEN "done" ELSE "opts"
    /\ id' = Zero64
    /\ given' = GivenAfter(given, o)
    /\ lastOpt' = o
    /\ UNCHANGED <<sampled, phases, first, second>>

\* the loop is over: ts, err := s.getElapsedTimestamp(); s.timestamp = ts
ResolveClock(nowv) ==
    /\ pc = "opts"
    /\ LET r == getElapsedTimestamp(s, nowv)
       IN  /\ err' = r.err
           /\ pc' = IF r.err # Nil THEN "done" ELSE "random"
           /\ s' = IF r.err # Nil THEN s ELSE [s EXCEPT !.timestamp = r.ts]
    /\ id' = Zero64
    /\ sampled' = <<nowv>>
    /\ phases' = phases \cup {"clock"}
    /\ lastOpt' = NoOpt
    /\ UNCHANGED <<given, first, second>>

\* if s.random { ... }; s.mutex.Unlock(); return generatedID, nil
Finish ==
    /\ pc = "random"
    /\ \E x \in RandomOutcomes(s) :
          /\ s' = Unlock(x)
          /\ id' = Pack(x)
    /\ err' = Nil
    /\ pc' = "done"
    /\ phases' = IF s.random THEN phases \cup {"random"} ELSE phases
    /\ UNCHANGED <<given, lastOpt, sampled, first, second>>

Next ==
    \/ Call
    \/ \E o \in Options : Option(o)
    \/ \E nowv \in NowValues : ResolveClock(nowv)
    \/ Finish

Spec == Init /\ [][Next]_vars

NextClock ==
    \/ Call
    \/ \E o \in ClockOptions : Option(o)
    \/ \E nowv \in NowValues : ResolveClock(nowv)
    \/ Finish

SpecClock == Init /\ [][NextClock]_vars

(***************************************************************************)
(* NewSnowflakeID as a whole, and two calls of it                          *)
(***************************************************************************)

\* the loop over opts: the state object and error it ends with
RECURSIVE ApplyOptions(_, _)
ApplyOptions(opts, s0) ==
    IF opts = <<>> THEN [s |-> s0, err |-> Nil]
    ELSE LET r == ApplyOption(Head(opts), s0)
         IN  IF r.err # Nil THEN r ELSE ApplyOptions(Tail(opts), r.s)

\* NewSnowflakeID(opts...) with time.Now() returning nowv: the (ID, error)
\* pairs it can return, each with the state object it leaves behind
NewSnowflakeID(opts, nowv) ==
    LET a == ApplyOptions(opts, Lock(NewSnowflake))
        c == getElapsedTimestamp(a.s, nowv)
    IN  IF a.err # Nil THEN {[id |-> Zero64, err |-> a.err, s |-> a.s]}
        ELSE IF c.err # Nil THEN {[id |-> Zero64, err |-> c.err, s |-> a.s]}
        ELSE {[id |-> Pack(x), err |-> Nil, s |-> Unlock(x)] :
                x \in RandomOutcomes([a.s EXCEPT !.timestamp = c.ts])}

RECURSIVE GivenOf(_)
GivenOf(opts) ==
    IF opts = <<>> THEN NoneGiven
    ELSE GivenAfter(GivenOf(SubSeq(opts, 1, Len(opts) - 1)), opts[Len(opts)])

\* the option lists of SpecPair: an optional timestamp, an optional epoch,
\* then no field, every field at its maximum, or two fields at their maximum
\* and the third left to the randomizer
PairFieldLists ==
    LET dc == IntOpt("WithDatacenterID", 31)
        m == IntOpt("WithMachineID", 31)
        q == IntOpt("WithSequenceNumber", 4095)
        rnd == IntOpt("WithRandomEnabled", 0)
    IN  {<<>>, <<dc, m, q>>, <<rnd, dc, m>>, <<dc, rnd, q>>, <<m, q, rnd>>}

PairOptLists ==
    {ts \o base \o fields :
        ts \in {<<>>} \cup {<<TimeOpt("WithTimestamp", t)>> :
                              t \in {JustAfter1970, LastInLifetime}},
        base \in {<<>>, <<TimeOpt("WithBaseTime", LaterEpoch)>>},
        fields \in PairFieldLists}

\* one whole call: the first, then the second
Invoke(opts, nowv) ==
    /\ ~second.done
    /\ \E r \in NewSnowflakeID(opts, nowv) :
          LET c == [done |-> TRUE, opts |-> opts, now |-> nowv,
                    id |-> r.id, err |-> r.err, s |-> r.s]
          IN  IF first.done THEN second' = c /\ UNCHANGED first
              ELSE first' = c /\ UNCHANGED second
    /\ UNCHANGED <<pc, s, id, err, given, lastOpt, sampled, phases>>

NextPair == \E opts \in PairOptLists, nowv \in NowValues : Invoke(opts, nowv)

SpecPair == Init /\ [][NextPair]_vars

(***************************************************************************)
(* What the claims speak of                                                *)
(***************************************************************************)

RangeErrors ==
    {ErrInvalidDatacenterID, ErrInvalidMachineID, ErrInvalidSequenceNumber}

\* the argument passed for a field, 0 when the option was not passed
ArgOr0(g) == IF g = <<>> THEN 0 ELSE g[1]

\* x * 2^k for a natural number x: every 1 bit weighs 2^k more (no bit is
\* dropped: a product beyond 2^63 is no int64 word and equals no ID)
TimesPow2(x, k) == {i + k : i \in x}

\* the decoding of an ID: id>>22, (id>>17)&31, (id>>12)&31, id&4095
TsField(i) == Shr64(i, 22)

DcField(i) == And64(Shr64(i, 17), FromInt(31))

McField(i) == And64(Shr64(i, 12), FromInt(31))

SeqField(i) == And64(i, FromInt(4095))

\* 2^41 - 1
LifetimeMs == {i \in Bits : i < 41}

\* t <= u as instants
TimeLeq(t, u) == Less64(t.ms, u.ms) \/ (t.ms = u.ms /\ t.ns <= u.ns)

\* the epoch a call with arguments g counts from: the WithBaseTime argument
\* when one was passed (time.Time{} standing for none), else 2024-01-01T00:00:00Z
EffectiveEpoch(g) ==
    IF g.base = <<>> \/ g.base[1] = ZeroTime THEN MkTime(Big(1587, 38925312), 0)
    ELSE g.base[1]

\* an instant in whole milliseconds
WholeMillis(t) == MkTime(t.ms, 0)

\* the call has returned and none of its options was rejected
OptionsSucceeded == pc = "done" /\ err \notin RangeErrors

Succeeded == pc = "done" /\ err = Nil

(***************************************************************************)
(* C1: a successful call without randomization, with elapsed offset d and  *)
(* arguments dc, m, q, returns d*2^22 + dc*2^17 + m*2^12 + q, and the      *)
(* shifts and masks give back exactly (d, dc, m, q).                       *)
(***************************************************************************)
C1_PackRoundTrip ==
    (/\ Succeeded
     /\ ~given.random
     /\ Less64(Zero64, s.timestamp) /\ Leq64(s.timestamp, LifetimeMs)) =>
        LET d == s.timestamp
            dc == FromInt(ArgOr0(given.dc))
            m == FromInt(ArgOr0(given.m))
            q == FromInt(ArgOr0(given.seq))
        IN  /\ id = Add64(Add64(TimesPow2(d, 22), TimesPow2(dc, 17)),
                          Add64(TimesPow2(m, 12), q))
            /\ TsField(id) = d
            /\ DcField(id) = dc
            /\ McField(id) = m
            /\ SeqField(id) = q

\* the largest offset with every field at its maximum
C1_Witness ==
    /\ Succeeded
    /\ ~given.random
    /\ s.timestamp = LifetimeMs
    /\ given.dc = <<31>> /\ given.m = <<31>> /\ given.seq = <<4095>>

(***************************************************************************)
(* C2: WithDatacenterID(v) and WithMachineID(v) are rejected exactly when  *)
(* v < 0 or v > 31, WithSequenceNumber(v) exactly when v < 0 or v > 4095,  *)
(* each with its own error; a rejected option makes the call return that   *)
(* error with ID 0, an accepted one stores v and lets the loop go on.      *)
(***************************************************************************)
C2_Arguments == (-2 .. 33) \cup (4094 .. 4097)

C2_RangeChecks ==
    /\ pc = "opts" =>
          \A v \in C2_Arguments :
              /\ WithDatacenterID(v, s).err =
                    (IF v < 0 \/ v > 31 THEN ErrInvalidDatacenterID ELSE Nil)
              /\ WithMachineID(v, s).err =
                    (IF v < 0 \/ v > 31 THEN ErrInvalidMachineID ELSE Nil)
              /\ WithSequenceNumber(v, s).err =
                    (IF v < 0 \/ v > 4095 THEN ErrInvalidSequenceNumber ELSE Nil)
    /\ lastOpt.kind = "WithDatacenterID" =>
          IF lastOpt.n < 0 \/ lastOpt.n > 31
          THEN pc = "done" /\ err = ErrInvalidDatacenterID /\ id = Zero64
          ELSE pc = "opts" /\ err = Nil /\ s.datacenterID = lastOpt.n
    /\ lastOpt.kind = "WithMachineID" =>
          IF lastOpt.n < 0 \/ lastOpt.n > 31
          THEN pc = "done" /\ err = ErrInvalidMachineID /\ id = Zero64
          ELSE pc = "opts" /\ err = Nil /\ s.machineID = lastOpt.n
    /\ lastOpt.kind = "WithSequenceNumber" =>
          IF lastOpt.n < 0 \/ lastOpt.n > 4095
          THEN pc = "done" /\ err = ErrInvalidSequenceNumber /\ id = Zero64
          ELSE pc = "opts" /\ err = Nil /\ s.sequenceNumber = lastOpt.n

\* a maximum accepted, then the value above it rejected
C2_Witness ==
    /\ pc = "done"
    /\ given.dc = <<31>> /\ s.datacenterID = 31
    /\ lastOpt = IntOpt("WithMachineID", 32)
    /\ err = ErrInvalidMachineID

(***************************************************************************)
(* C3: when every option succeeded and the timestamp passed to             *)
(* WithTimestamp is at or before the effective epoch, the call fails with  *)
(* ErrInvalidTimestamp and returns ID 0.                                   *)
(***************************************************************************)
C3_AtOrBeforeEpochRejected ==
    (/\ OptionsSucceeded
     /\ given.ts # <<>>
     /\ TimeLeq(given.ts[1], EffectiveEpoch(given))) =>
        (err = ErrInvalidTimestamp /\ id = Zero64)

(***************************************************************************)
(* C4: when every option succeeded, with d > 0 the whole milliseconds from *)
(* the effective epoch to the effective timestamp (a timestamp passed to   *)
(* WithTimestamp that is later than 1970-01-01T00:00:00Z, else the clock   *)
(* reading): d <= 2^41-1 gives an ID whose timestamp field is d, and       *)
(* d > 2^41-1 gives ErrOverLifeTime and ID 0.                              *)
(***************************************************************************)
After1970(t) == Less64(Zero64, t.ms) \/ (t.ms = Zero64 /\ t.ns > 0)

C4_Offset ==
    SubMilliseconds(IF given.ts = <<>> THEN sampled[1] ELSE WholeMillis(given.ts[1]),
                    EffectiveEpoch(given))

C4_Boundary ==
    IF Leq64(C4_Offset, LifetimeMs)
    THEN err = Nil /\ And64(TsField(id), LifetimeMs) = C4_Offset
    ELSE err = ErrOverLifeTime /\ id = Zero64

C4_LifetimeBoundary ==
    (/\ OptionsSucceeded
     /\ given.ts = <<>> \/ After1970(given.ts[1])
     /\ Less64(Zero64, C4_Offset)) => C4_Boundary

\* the same for timestamps from the first whole millisecond after 1970 on,
\* which is where the boundary 2^41-1 / 2^41 is decided
C4_FromFirstMillisecond ==
    (/\ OptionsSucceeded
     /\ given.ts = <<>> \/ Less64(Zero64, given.ts[1].ms)
     /\ Less64(Zero64, C4_Offset)) => C4_Boundary

(***************************************************************************)
(* C5: two calls given the same explicit timestamp, epoch, datacenter ID,  *)
(* machine ID and sequence number, without randomization, return the same  *)
(* (ID, error), whatever the clock reads at either call.                   *)
(***************************************************************************)
C5_Deterministic ==
    (/\ first.done /\ second.done
     /\ GivenOf(first.opts) = GivenOf(second.opts)
     /\ GivenOf(first.opts).ts # <<>>
     /\ ~GivenOf(first.opts).random) =>
        (first.id = second.id /\ first.err = second.err)

(***************************************************************************)
(* C6: options are applied in order and the first out-of-range option ends *)
(* the call: it returns ID 0 and that option's error, the option is not    *)
(* applied, no later option is, and neither the clock resolver nor the     *)
(* randomizer runs; every option handled before it was in range.           *)
(***************************************************************************)
OutOfRange(o) ==
    \/ o.kind \in {"WithDatacenterID", "WithMachineID"} /\ (o.n < 0 \/ o.n > 31)
    \/ o.kind = "WithSequenceNumber" /\ (o.n < 0 \/ o.n > 4095)

RangeErrorOf(o) ==
    CASE o.kind = "WithDatacenterID" -> ErrInvalidDatacenterID
      [] o.kind = "WithMachineID" -> ErrInvalidMachineID
      [] o.kind = "WithSequenceNumber" -> ErrInvalidSequenceNumber

C6_FirstFailureEndsCall ==
    [][/\ (pc = "opts" /\ lastOpt' # NoOpt) =>
             IF OutOfRange(lastOpt')
             THEN /\ pc' = "done"
                  /\ id' = Zero64
                  /\ err' = RangeErrorOf(lastOpt')
                  /\ s' = s
                  /\ phases' = {}
                  /\ sampled' = <<>>
             ELSE pc' = "opts" /\ err' = Nil
        /\ (pc = "done" /\ err \in RangeErrors) =>
             (pc' = "opts" /\ given' = NoneGiven /\ s' = Lock(NewSnowflake))
      ]_vars

\* a sequence number out of range, after options that were applied, in a
\* call whose timestamp is beyond the lifetime and that enabled randomization
C6_Witness ==
    /\ pc = "done"
    /\ err = ErrInvalidSequenceNumber
    /\ lastOpt = IntOpt("WithSequenceNumber", 4096)
    /\ given.ts = <<FirstOverLifetime>>
    /\ given.random
    /\ s.datacenterID = 31

(***************************************************************************)
(* C7: of two successful calls with the same effective epoch, the one with *)
(* the smaller elapsed offset has the smaller ID, whatever the other       *)
(* fields are; every successful ID is positive, its top bit 0.             *)
(***************************************************************************)
EpochOf(c) == IF IsZero(c.s.baseTime) THEN defaultBaseTime ELSE c.s.baseTime

C7_Ordered(a, b) ==
    (/\ a.done /\ b.done
     /\ a.err = Nil /\ b.err = Nil
     /\ EpochOf(a) = EpochOf(b)
     /\ Less64(a.s.timestamp, b.s.timestamp)) => Less64(a.id, b.id)

C7_SortsByTime ==
    /\ C7_Ordered(first, second)
    /\ C7_Ordered(second, first)
    /\ \A c \in {first, second} :
          (c.done /\ c.err = Nil) => (Less64(Zero64, c.id) /\ SignBit \notin c.id)

\* the earlier call with every field at its maximum, the later one with a
\* randomized sequence number of 0
C7_Witness ==
    /\ first.done /\ second.done
    /\ first.err = Nil /\ second.err = Nil
    /\ EpochOf(first) = EpochOf(second)
    /\ Less64(first.s.timestamp, second.s.timestamp)
    /\ ~first.s.random
    /\ first.s.datacenterID = 31 /\ first.s.machineID = 31
    /\ first.s.sequenceNumber = 4095
    /\ second.s.random /\ second.s.sequenceNumber = 0

(***************************************************************************)
(* C8: with randomization enabled and no field passed, the values each     *)
(* field of the returned ID can take are exactly its range: all of 0..31   *)
(* for the datacenter and machine fields, all of 0..4095 for the sequence  *)
(* field.                                                                  *)
(***************************************************************************)
C8_RandomRangeExact ==
    (/\ pc = "random"
     /\ given.random
     /\ given.dc = <<>> /\ given.m = <<>> /\ given.seq = <<>>) =>
        LET ids == {Pack(x) : x \in RandomOutcomes(s)}
        IN  /\ {DcField(i) : i \in ids} = {FromInt(v) : v \in 0 .. 31}
            /\ {McField(i) : i \in ids} = {FromInt(v) : v \in 0 .. 31}
            /\ {SeqField(i) : i \in ids} = {FromInt(v) : v \in 0 .. 4095}

\* what does hold: the fields never leave their ranges
C8_RandomWithinRange ==
    (Succeeded /\ given.random) =>
        /\ DcField(id) = FromInt(s.datacenterID) /\ s.datacenterID \in 0 .. 31
        /\ McField(id) = FromInt(s.machineID) /\ s.machineID \in 0 .. 31
        /\ SeqField(id) = FromInt(s.sequenceNumber) /\ s.sequenceNumber \in 0 .. 4095

(***************************************************************************)
(* C9: in a successful call with randomization enabled, every field the    *)
(* caller passed (0 included) is in the ID with exactly that value, and    *)
(* the timestamp field is the elapsed offset.                              *)
(***************************************************************************)
C9_RandomKeepsGivenFields ==
    (Succeeded /\ given.random) =>
        /\ given.dc # <<>> => DcField(id) = FromInt(given.dc[1])
        /\ given.m # <<>> => McField(id) = FromInt(given.m[1])
        /\ given.seq # <<>> => SeqField(id) = FromInt(given.seq[1])
        /\ TsField(id) = s.timestamp

\* what does hold: a field passed with a value other than 0 is kept
C9_RandomKeepsNonZeroFields ==
    (Succeeded /\ given.random) =>
        /\ (given.dc # <<>> /\ given.dc # <<0>>) => DcField(id) = FromInt(given.dc[1])
        /\ (given.m # <<>> /\ given.m # <<0>>) => McField(id) = FromInt(given.m[1])
        /\ (given.seq # <<>> /\ given.seq # <<0>>) => SeqField(id) = FromInt(given.seq[1])
        /\ TsField(id) = s.timestamp

(***************************************************************************)
(* C10: a call that has returned, with an ID or with any error, has        *)
(* released the lock of its state object.                                  *)
(***************************************************************************)
C10_LockReleased == pc = "done" => ~s.mutex

\* what does hold: the lock is released exactly on the successful return
C10_LockReleasedOnSuccess == pc = "done" => (s.mutex <=> err # Nil)

====
